---- MODULE Spec2Model ----
(***************************************************************************)
(* Sharkbite: the hourly battery dispatch simulation                       *)
(* (sharkbite_engine/solar_calculator_logic.py,                            *)
(* run_hourly_dispatch_simulation).                                        *)
(*                                                                         *)
(* Energies are fixed-point numbers counted in hundredths of a kWh         *)
(* (1000 = 10.00 kWh).  Sums and differences are exact; a product or a     *)
(* quotient with an efficiency is rounded to the nearest unit, ties to     *)
(* even, the way the code's floating-point arithmetic rounds each          *)
(* operation to the nearest representable value.                           *)
(***************************************************************************)
EXTENDS Integers, Sequences, FiniteSets, TLC

\* ------------------------------------------------------------------ bounds
\* Hours simulated by one run (the code runs range(8760)).
NumHours == 3

\* The values one hour of load / DC solar can take, in 1/100 kWh.
LoadValues == {0, 1000, 10000}
SolarValues == {0, 6000}
\* Battery capacities, inverter AC ratings, reserve percentages.
BatteryValues == {0, 100, 1000, 10000}
InverterValues == {5000, 10000}
ReservePctValues == {0, 50}
\* Peak-hour containers handed to the simulation (hour-of-day values).
PeakHourChoices == {{}, {1}, {0, 2}}

\* --------------------------------------------------------------- constants
\* INVERTER_EFF = 0.96 and battery_eff = 0.90, as percentages.
INVERTER_EFF == 96
battery_eff == 90

\* ------------------------------------------------------------- arithmetic
Min(a, b) == IF a <= b THEN a ELSE b
Max(a, b) == IF a >= b THEN a ELSE b

\* n / d rounded to the nearest integer, ties to even (n >= 0, d > 0).
RoundDiv(n, d) ==
    LET q == n \div d
        r == n % d
    IN  IF 2 * r < d THEN q
        ELSE IF 2 * r > d THEN q + 1
        ELSE IF q % 2 = 0 THEN q ELSE q + 1

\* x * INVERTER_EFF, x / INVERTER_EFF, x * battery_eff
TimesInverterEff(x) == RoundDiv(x * INVERTER_EFF, 100)
OverInverterEff(x) == RoundDiv(x * 100, INVERTER_EFF)
TimesBatteryEff(x) == RoundDiv(x * battery_eff, 100)

\* np.zeros(n)
Zeros == [i \in 1..NumHours |-> 0]

VARIABLES
    \* the arguments of run_hourly_dispatch_simulation
    hourly_load, hourly_solar, battery_kwh, inverter_size_kw,
    min_battery_reserve_pct, self_consumption_priority, tou_enabled, peak_hours,
    \* the loop's state
    pc, hour, soc, L, S_ac, discharge_amount,
    \* the result series
    import_kwh, export_kwh, solar_to_load, solar_to_battery, battery_to_load,
    \* the KPIs of the returned dictionary
    annual_import_kwh, annual_export_kwh, self_consumption_rate_percent,
    grid_independence_rate_percent

inputs == <<hourly_load, hourly_solar, battery_kwh, inverter_size_kw,
            min_battery_reserve_pct, self_consumption_priority, tou_enabled,
            peak_hours>>
series == <<import_kwh, export_kwh, solar_to_load, solar_to_battery,
            battery_to_load>>
VARIABLES
    \* generate_hourly_rate_schedule: its argument, its position, the loop
    \* index i, the rate written to hourly_rates[i - 1] and the type of the
    \* object handed back to the caller ("None" until it returns)
    rate_plan, rates_pc, rates_i, rate, rates_returned

rates_vars == <<rate_plan, rates_pc, rates_i, rate, rates_returned>>
\* generate_hourly_rate_schedule is not running.
RatesIdle ==
    /\ rate_plan = "none"
    /\ rates_pc = "idle"
    /\ rates_i = 0
    /\ rate = 0
    /\ rates_returned = "None"

VARIABLES
    \* calculate_final_financials: its position, its arguments capex,
    \* user_type and hourly_rates (dispatch_results is the dispatch series),
    \* and the dictionary it returns: its scalars and the monthly table
    fin_pc, capex, user_type, hourly_rates,
    total_annual_savings, itc_amount, macrs_benefit, net_cost,
    payback_years, roi_percent_25_yr, monthly_cash_flow_df

fin_args == <<capex, user_type, hourly_rates>>
financials == <<total_annual_savings, itc_amount, macrs_benefit, net_cost,
                payback_years, roi_percent_25_yr, monthly_cash_flow_df>>
fin_vars == <<fin_pc, fin_args, financials>>
\* calculate_final_financials has returned nothing yet.
NoFinancials ==
    /\ total_annual_savings = 0
    /\ itc_amount = 0
    /\ macrs_benefit = 0
    /\ net_cost = 0
    /\ payback_years = 0
    /\ roi_percent_25_yr = 0
    /\ monthly_cash_flow_df = <<>>
\* calculate_final_financials is not running.
FinIdle ==
    /\ fin_pc = "idle"
    /\ capex = 0
    /\ user_type = "none"
    /\ hourly_rates = <<>>
    /\ NoFinancials

VARIABLES
    \* perform_solar_battery_calculations: its position, the inputs dictionary,
    \* what the outside world answers (geocoder, API key, PVWatts), the results
    \* bundle, the local hourly_solar and the exception that left the function
    orch_pc, form_inputs, env, results, fetched, exception

orch_vars == <<orch_pc, form_inputs, env, results, fetched, exception>>
\* Python values of more than one type: a string, a list or a tuple. None is
\* the string value "None"; the tuple (list, None) keeps its list in items.
Str(t) == [kind |-> "str", text |-> t, items |-> <<>>]
List(l) == [kind |-> "list", text |-> "", items |-> l]
Tuple(l) == [kind |-> "tuple", text |-> "", items |-> l]
\* perform_solar_battery_calculations is not running.
OrchIdle ==
    /\ orch_pc = "idle"
    /\ form_inputs = <<>>
    /\ env = <<>>
    /\ results = <<>>
    /\ fetched = Str("None")
    /\ exception = "none"

VARIABLES
    \* synthesize_hourly_load_profile: its position, its arguments and the list
    \* it returns
    synth_pc, annual_kwh, profile_user_type, load_profile,
    \* calculate_future_electrification_load: its position, its arguments and
    \* the value it returns
    future_pc, ev_miles, ev_efficiency, heat_pump_btu, heat_pump_cop,
    additional_kwh

synth_vars == <<synth_pc, annual_kwh, profile_user_type, load_profile>>
future_vars == <<future_pc, ev_miles, ev_efficiency, heat_pump_btu, heat_pump_cop,
                 additional_kwh>>
\* A Python number; None is Str("None").
Num(n) == [kind |-> "num", text |-> "", items |-> <<n>>]
None == Str("None")
\* Neither helper is running.
HelpersIdle ==
    /\ synth_pc = "idle"
    /\ annual_kwh = 0
    /\ profile_user_type = "none"
    /\ load_profile = <<>>
    /\ future_pc = "idle"
    /\ ev_miles = None
    /\ ev_efficiency = None
    /\ heat_pump_btu = None
    /\ heat_pump_cop = None
    /\ additional_kwh = 0

VARIABLES
    \* sharkbite_app.py: st.session_state's logged_in, username and
    \* current_screen, the values typed into the login and signup forms, and
    \* what the last run of the script displayed
    logged_in, username, current_screen,
    main_login_user, main_login_pass, main_signup_user, main_signup_pass,
    displayed

login_vars == <<logged_in, username, current_screen, main_login_user,
                main_login_pass, main_signup_user, main_signup_pass, displayed>>
\* The app has not been started.
AppIdle ==
    /\ logged_in = FALSE
    /\ username = ""
    /\ current_screen = "none"
    /\ main_login_user = ""
    /\ main_login_pass = ""
    /\ main_signup_user = ""
    /\ main_signup_pass = ""
    /\ displayed = "none"

aux_vars == <<synth_vars, future_vars, login_vars>>
AuxIdle == HelpersIdle /\ AppIdle

\* The state of the functions other than run_hourly_dispatch_simulation.
outside == <<rates_vars, fin_vars, orch_vars, aux_vars>>
\* The state of run_hourly_dispatch_simulation is not in use.
DispatchIdle ==
    /\ hourly_load = <<>>
    /\ hourly_solar = <<>>
    /\ battery_kwh = 0
    /\ inverter_size_kw = 0
    /\ min_battery_reserve_pct = 0
    /\ self_consumption_priority = FALSE
    /\ tou_enabled = FALSE
    /\ peak_hours = {}
    /\ pc = "idle"
    /\ hour = 0
    /\ soc = 0
    /\ L = 0
    /\ S_ac = 0
    /\ discharge_amount = 0
    /\ import_kwh = <<>>
    /\ export_kwh = <<>>
    /\ solar_to_load = <<>>
    /\ solar_to_battery = <<>>
    /\ battery_to_load = <<>>
    /\ annual_import_kwh = 0
    /\ annual_export_kwh = 0
    /\ self_consumption_rate_percent = 0
    /\ grid_independence_rate_percent = 0

kpis == <<annual_import_kwh, annual_export_kwh, self_consumption_rate_percent,
          grid_independence_rate_percent>>
dispatch_vars == <<inputs, pc, hour, soc, L, S_ac, discharge_amount, series, kpis>>
vars == <<dispatch_vars, outside>>

\* The series are indexed by hour 0..NumHours-1; sequences start at 1.
At(s, h) == s[h + 1]

\* ---------------------------------------------------- the code's formulas
\* min_soc_kwh = battery_kwh * (min_battery_reserve_pct / 100.0)
MinSocKwh(b, pct) == RoundDiv(b * pct, 100)
min_soc_kwh == MinSocKwh(battery_kwh, min_battery_reserve_pct)

\* Mutant: the inverter rating does not clip the solar series.
InverterOutputAC_NoClip(s, inv) == s
\* inverter_output_ac = np.minimum(hourly_solar, inverter_size_kw)
InverterOutputAC(s, inv) == Min(s, inv)
\* clipped_dc_power = np.maximum(0, hourly_solar - inverter_size_kw)
ClippedDCPower(s, inv) == Max(0, s - inv)

\* is_peak_hour = hour % 24 in peak_hours
IsPeakHour(h, peaks) == (h % 24) \in peaks

\* available_solar_for_charge = S_clipped + (S_ac * INVERTER_EFF)
AvailableSolarForCharge(clipped, ac) == clipped + TimesInverterEff(ac)

\* if available_solar_for_charge > 0 and soc < battery_kwh:
CanCharge(avail, s, b) == avail > 0 /\ s < b
\* Mutant: the charge ignores the battery's headroom.
ChargeAmount_NoHeadroom(avail, s, b) == avail
\* charge = min(available_solar_for_charge, battery_kwh - soc)
ChargeAmount(avail, s, b) == Min(avail, b - s)
\* soc += charge * battery_eff
SocAfterCharge(s, charge) == s + TimesBatteryEff(charge)
\* charge / INVERTER_EFF: the power drawn from solar, taken off S_ac
SolarDrawnForCharge(charge) == OverInverterEff(charge)

\* Mutant: the whole load is booked as served by solar.
ToLoad_AllLoad(l, ac) == l
\* Mutant: solar serves none of the load.
ToLoad_NoneServed(l, ac) == 0
\* to_load = min(L, S_ac)
ToLoad(l, ac) == Min(l, ac)

\* Mutant: leftover solar is exported whatever the policy.
ExportOf_Always(ac, s, b, scp) == IF ac > 0 THEN ac ELSE 0
\* Mutant: leftover solar is exported only from a full battery.
ExportOf_OnlyWhenFull(ac, s, b, scp) == IF ac > 0 /\ s >= b THEN ac ELSE 0
\* Step 3, the two ifs under "if S_ac > 0": what export_kwh[hour] becomes.
ExportOf(ac, s, b, scp) ==
    LET e0 == 0
        e1 == IF s >= b /\ scp THEN ac ELSE e0
        e2 == IF ~scp THEN ac ELSE e1
    IN  IF ac > 0 THEN e2 ELSE e0

\* if L > 0 and soc > min_soc_kwh:
CanDischarge(l, s, minsoc) == l > 0 /\ s > minsoc
\* Mutant: under TOU the battery discharges in off-peak hours as well.
DischargeDecision_NoPeak(tou, scp, peak) == tou \/ scp
\* discharge_decision, built by the three ifs of step 4
DischargeDecision(tou, scp, peak) ==
    LET d0 == FALSE
        d1 == IF tou /\ peak THEN TRUE ELSE d0
        d2 == IF tou /\ scp /\ ~peak THEN TRUE ELSE d1
        d3 == IF ~tou /\ scp THEN TRUE ELSE d2
    IN  d3
\* Mutant: the reserve floor is not kept back.
DischargeAvailable_NoFloor(s, minsoc) == s
\* discharge_available = soc - min_soc_kwh
DischargeAvailable(s, minsoc) == s - minsoc
\* Mutant: the load is not divided by the inverter efficiency.
DischargeAmount_NoEff(s, minsoc, l) == Min(DischargeAvailable(s, minsoc), l)
\* discharge_amount = min(discharge_available, L / INVERTER_EFF)
DischargeAmount(s, minsoc, l) ==
    Min(DischargeAvailable(s, minsoc), OverInverterEff(l))
\* battery_to_load[hour] = discharge_amount * INVERTER_EFF
BatteryToLoad(d) == TimesInverterEff(d)
\* Mutant: the load is reduced by the DC amount taken from the battery.
LoadAfterDischarge_NoEff(l, d) == l - d
\* L -= discharge_amount * INVERTER_EFF
LoadAfterDischarge(l, d) == l - TimesInverterEff(d)

\* Step 5: import_kwh[hour] = L if L > 0 (else it stays 0)
GridImport(l) == IF l > 0 THEN l ELSE 0

\* ------------------------------------------------------------------ Init
\* The state on entry to the loop: the arguments, soc = 0.0 and the
\* np.zeros result series.
Init ==
    /\ hourly_load \in [1..NumHours -> LoadValues]
    /\ hourly_solar \in [1..NumHours -> SolarValues]
    /\ battery_kwh \in BatteryValues
    /\ inverter_size_kw \in InverterValues
    /\ min_battery_reserve_pct \in ReservePctValues
    /\ self_consumption_priority \in BOOLEAN
    /\ tou_enabled \in BOOLEAN
    /\ peak_hours \in PeakHourChoices
    /\ pc = "loop"
    /\ hour = 0
    /\ soc = 0
    /\ L = 0
    /\ S_ac = 0
    /\ discharge_amount = 0
    /\ import_kwh = Zeros
    /\ export_kwh = Zeros
    /\ solar_to_load = Zeros
    /\ solar_to_battery = Zeros
    /\ battery_to_load = Zeros
    /\ annual_import_kwh = 0
    /\ annual_export_kwh = 0
    /\ self_consumption_rate_percent = 0
    /\ grid_independence_rate_percent = 0
    /\ RatesIdle
    /\ FinIdle
    /\ OrchIdle
    /\ AuxIdle

\* The hour's clipped DC power and peak flag (read at the top of the body).
S_clipped == ClippedDCPower(At(hourly_solar, hour), inverter_size_kw)
is_peak_hour == IsPeakHour(hour, peak_hours)

\* for hour in range(8760): L = hourly_load[hour]; S_ac = inverter_output_ac[hour]
\* (discharge_amount is read only in the hour that sets it: it shows 0 until then)
BeginHour ==
    /\ pc = "loop"
    /\ hour < NumHours
    /\ L' = At(hourly_load, hour)
    /\ S_ac' = InverterOutputAC(At(hourly_solar, hour), inverter_size_kw)
    /\ discharge_amount' = 0
    /\ pc' = "charge"
    /\ UNCHANGED <<outside, kpis, inputs, hour, soc, series>>

\* Mutant: any available solar is charged, whatever the battery can hold.
Charge_NoCapacityCheck ==
    /\ pc = "charge"
    /\ LET avail == AvailableSolarForCharge(S_clipped, S_ac)
       IN  IF avail > 0
           THEN /\ soc' = SocAfterCharge(soc, avail)
                /\ solar_to_battery' =
                       [solar_to_battery EXCEPT ![hour + 1] = SolarDrawnForCharge(avail)]
                /\ S_ac' = S_ac - SolarDrawnForCharge(avail)
           ELSE UNCHANGED <<soc, solar_to_battery, S_ac>>
    /\ pc' = "to_load"
    /\ UNCHANGED <<outside, kpis, inputs, hour, L, discharge_amount, import_kwh, export_kwh,
                   solar_to_load, battery_to_load>>

\* 1. Charge from clipped DC power and AC solar
Charge ==
    /\ pc = "charge"
    /\ LET avail == AvailableSolarForCharge(S_clipped, S_ac)
           charge == ChargeAmount(avail, soc, battery_kwh)
       IN  IF CanCharge(avail, soc, battery_kwh)
           THEN /\ soc' = SocAfterCharge(soc, charge)
                /\ solar_to_battery' =
                       [solar_to_battery EXCEPT ![hour + 1] = SolarDrawnForCharge(charge)]
                /\ S_ac' = S_ac - SolarDrawnForCharge(charge)
           ELSE UNCHANGED <<soc, solar_to_battery, S_ac>>
    /\ pc' = "to_load"
    /\ UNCHANGED <<outside, kpis, inputs, hour, L, discharge_amount, import_kwh, export_kwh,
                   solar_to_load, battery_to_load>>

\* 2. Solar AC directly serves on-site load
SolarToLoad ==
    /\ pc = "to_load"
    /\ LET to_load == ToLoad(L, S_ac)
       IN  /\ solar_to_load' = [solar_to_load EXCEPT ![hour + 1] = to_load]
           /\ L' = L - to_load
           /\ S_ac' = S_ac - to_load
    /\ pc' = "export"
    /\ UNCHANGED <<outside, kpis, inputs, hour, soc, discharge_amount, import_kwh, export_kwh,
                   solar_to_battery, battery_to_load>>

\* 3. Handle remaining AC solar
HandleRemainingSolar ==
    /\ pc = "export"
    /\ export_kwh' = [export_kwh EXCEPT ![hour + 1] =
                          ExportOf(S_ac, soc, battery_kwh, self_consumption_priority)]
    /\ pc' = "discharge"
    /\ UNCHANGED <<outside, kpis, inputs, hour, soc, L, S_ac, discharge_amount, import_kwh,
                   solar_to_load, solar_to_battery, battery_to_load>>

\* 4. Battery discharging to meet remaining load
Discharge ==
    /\ pc = "discharge"
    /\ IF /\ CanDischarge(L, soc, min_soc_kwh)
          /\ DischargeDecision(tou_enabled, self_consumption_priority, is_peak_hour)
       THEN LET d == DischargeAmount(soc, min_soc_kwh, L)
            IN  /\ discharge_amount' = d
                /\ soc' = soc - d
                /\ battery_to_load' =
                       [battery_to_load EXCEPT ![hour + 1] = BatteryToLoad(d)]
                /\ L' = LoadAfterDischarge(L, d)
       ELSE UNCHANGED <<discharge_amount, soc, battery_to_load, L>>
    /\ pc' = "import"
    /\ UNCHANGED <<outside, kpis, inputs, hour, S_ac, import_kwh, export_kwh, solar_to_load,
                   solar_to_battery>>

\* 5. Grid import (last resort); the loop moves on to the next hour
Import ==
    /\ pc = "import"
    /\ import_kwh' = [import_kwh EXCEPT ![hour + 1] = GridImport(L)]
    /\ hour' = hour + 1
    /\ pc' = "loop"
    /\ UNCHANGED <<outside, kpis, inputs, soc, L, S_ac, discharge_amount, export_kwh,
                   solar_to_load, solar_to_battery, battery_to_load>>

\* --- FINAL KPI CALCULATIONS ---
\* np.sum over a series
RECURSIVE SumUpTo(_, _)
SumUpTo(s, n) == IF n = 0 THEN 0 ELSE s[n] + SumUpTo(s, n - 1)
Sum(s) == SumUpTo(s, Len(s))

\* What a / b gives when b is 0 (numpy: nan or inf, with a warning): a value
\* no computation on energies produces.
NaN == -999999999
\* a / b on fixed-point numbers
Quotient(a, b) == IF b = 0 THEN NaN ELSE RoundDiv(a * 100, b)
\* x * 100
TimesHundred(x) == IF x = NaN THEN NaN ELSE x * 100

\* Mutant: the rate is computed without the guard on total_solar_production.
SelfConsumptionRate_Unguarded(self_consumed, production) ==
    TimesHundred(Quotient(self_consumed, production))
\* self_consumption_rate =
\*     (total_self_consumed_solar / total_solar_production) * 100
\*     if total_solar_production > 0 else 0
SelfConsumptionRate(self_consumed, production) ==
    IF production > 0 THEN TimesHundred(Quotient(self_consumed, production)) ELSE 0

\* Mutant: the rate is computed without the guard on total_load.
GridIndependenceRate_Unguarded(onsite, load) ==
    TimesHundred(Quotient(onsite, load))
\* grid_independence_rate =
\*     (total_onsite_supply / total_load) * 100 if total_load > 0 else 0
GridIndependenceRate(onsite, load) ==
    IF load > 0 THEN TimesHundred(Quotient(onsite, load)) ELSE 0

\* "self_consumption_rate_percent": self_consumption_rate * 100
ReportedSelfConsumption(r) == TimesHundred(r)
\* "grid_independence_rate_percent": min(grid_independence_rate, 100.0)
ReportedGridIndependence(r) == Min(r, 100 * 100)

\* The loop is over: the KPIs are computed and the dictionary is returned.
Return ==
    /\ pc = "loop"
    /\ hour = NumHours
    /\ LET total_solar_production == Sum(hourly_solar)
           total_load == Sum(hourly_load)
           total_self_consumed_solar == Sum(solar_to_load) + Sum(solar_to_battery)
           total_onsite_supply == Sum(solar_to_load) + Sum(battery_to_load)
       IN  /\ self_consumption_rate_percent' =
                  ReportedSelfConsumption(
                      SelfConsumptionRate(total_self_consumed_solar, total_solar_production))
           /\ grid_independence_rate_percent' =
                  ReportedGridIndependence(
                      GridIndependenceRate(total_onsite_supply, total_load))
    /\ annual_import_kwh' = Sum(import_kwh)
    /\ annual_export_kwh' = Sum(export_kwh)
    /\ pc' = "done"
    /\ UNCHANGED <<outside, inputs, hour, soc, L, S_ac, discharge_amount, series>>

\* ---- generate_hourly_rate_schedule (utils.py) ----
\* Rates are integers in units of 1/100000 dollar per kWh.

HOLIDAYS_2025 ==
    {<<1, 1>>, <<1, 20>>, <<2, 17>>, <<5, 26>>, <<7, 4>>, <<9, 1>>,
     <<11, 11>>, <<11, 27>>, <<12, 25>>}

TOU_SCHEDULE_CONFIG ==
    [p \in {"Residential E-TOU-C", "Ag Rate AG-4B (Summer Peak)",
            "Ag Rate AG-5B (Summer Peak)"} |->
        CASE p = "Residential E-TOU-C" ->
               [seasons |-> [s \in {"all_year"} |->
                                [peak_rate |-> 55000, offpeak_rate |-> 35000]],
                days |-> {"weekday"}, hours |-> 16 .. 20]
          [] p = "Ag Rate AG-4B (Summer Peak)" ->
               [seasons |-> [s \in {"summer", "winter"} |->
                                IF s = "summer"
                                THEN [peak_rate |-> 29802, offpeak_rate |-> 16173]
                                ELSE [peak_rate |-> 16188, offpeak_rate |-> 13657]],
                days |-> {"weekday"}, hours |-> 12 .. 17]
          [] p = "Ag Rate AG-5B (Summer Peak)" ->
               [seasons |-> [s \in {"summer", "winter"} |->
                                IF s = "summer"
                                THEN [peak_rate |-> 22184, offpeak_rate |-> 9543]
                                ELSE [peak_rate |-> 11743, offpeak_rate |-> 8633]],
                days |-> {"weekday"}, hours |-> 12 .. 17]]

\* The rate plans a caller passes: the catalogue's and one it does not list.
RatePlanChoices == DOMAIN TOU_SCHEDULE_CONFIG \cup {"Commercial B-10"}

\* periods=8760 of the date range.
HoursPerYear == 8760
\* np.full(8760, 0.18)
FlatRate == 18000

\* The date range starts on 2025-01-01, a Wednesday (Monday = 0); 2025 is not
\* a leap year.
FirstDayOfWeek == 2
DaysBeforeMonth == <<0, 31, 59, 90, 120, 151, 181, 212, 243, 273, 304, 334>>
\* Timestamp i of the range: day of the year from 0, ts.hour, ts.month,
\* ts.day, ts.dayofweek.
DayOfYear(i) == i \div 24
TsHour(i) == i % 24
TsMonth(i) ==
    CHOOSE m \in 1 .. 12 :
        /\ DaysBeforeMonth[m] <= DayOfYear(i)
        /\ (m = 12 \/ DayOfYear(i) < DaysBeforeMonth[m + 1])
TsDay(i) == DayOfYear(i) - DaysBeforeMonth[TsMonth(i)] + 1
TsDayOfWeek(i) == (FirstDayOfWeek + DayOfYear(i)) % 7

Season(i) == IF 5 <= TsMonth(i) /\ TsMonth(i) <= 10 THEN "summer" ELSE "winter"
\* The season's rates, the all_year rates when the plan has no such season,
\* and no rates when it has neither (the code raises ValueError).
HasSeasonRates(plan, i) ==
    Season(i) \in DOMAIN plan.seasons \/ "all_year" \in DOMAIN plan.seasons
SeasonRates(plan, i) ==
    IF Season(i) \in DOMAIN plan.seasons
    THEN plan.seasons[Season(i)]
    ELSE plan.seasons["all_year"]
IsWeekday(i) == TsDayOfWeek(i) < 5
IsHoliday(i) == <<TsMonth(i), TsDay(i)>> \in HOLIDAYS_2025
\* Mutant: a listed holiday is treated as any other weekday.
IsPeakPeriod_IgnoresHoliday(plan, i) ==
    /\ TsHour(i) \in plan.hours
    /\ \/ ("weekday" \in plan.days /\ IsWeekday(i))
       \/ "everyday" \in plan.days
IsPeakPeriod(plan, i) ==
    /\ TsHour(i) \in plan.hours
    /\ \/ ("weekday" \in plan.days /\ IsWeekday(i) /\ ~IsHoliday(i))
       \/ "everyday" \in plan.days
\* The value the loop writes to hourly_rates[i].
RateAt(plan, i) ==
    IF IsPeakPeriod(plan, i)
    THEN SeasonRates(plan, i).peak_rate
    ELSE SeasonRates(plan, i).offpeak_rate
\* The array generate_hourly_rate_schedule returns, indexed from 0.
HourlyRates(name) ==
    [i \in 0 .. (HoursPerYear - 1) |->
        IF name \in DOMAIN TOU_SCHEDULE_CONFIG
        THEN RateAt(TOU_SCHEDULE_CONFIG[name], i)
        ELSE FlatRate]

\* generate_hourly_rate_schedule is called with some rate plan.
InitRates ==
    /\ rate_plan \in RatePlanChoices
    /\ rates_pc = "start"
    /\ rates_i = 0
    /\ rate = 0
    /\ rates_returned = "None"
    /\ DispatchIdle
    /\ FinIdle
    /\ OrchIdle
    /\ AuxIdle

\* An unlisted plan returns the flat array at once.
RatesFallback ==
    /\ rates_pc = "start"
    /\ rate_plan \notin DOMAIN TOU_SCHEDULE_CONFIG
    /\ rate' = FlatRate
    /\ rates_i' = HoursPerYear
    /\ rates_pc' = "done"
    /\ rates_returned' = "ndarray"
    /\ UNCHANGED <<rate_plan, dispatch_vars, fin_vars, orch_vars, aux_vars>>

\* A listed plan: the timestamps and the zero array are built.
RatesBegin ==
    /\ rates_pc = "start"
    /\ rate_plan \in DOMAIN TOU_SCHEDULE_CONFIG
    /\ rates_pc' = "loop"
    /\ UNCHANGED <<rate_plan, rates_i, rate, rates_returned, dispatch_vars, fin_vars, orch_vars, aux_vars>>

\* One iteration of the loop over the timestamps.
RateStep ==
    /\ rates_pc = "loop"
    /\ rates_i < HoursPerYear
    /\ LET plan == TOU_SCHEDULE_CONFIG[rate_plan] IN
         IF HasSeasonRates(plan, rates_i)
         THEN /\ rate' = RateAt(plan, rates_i)
              /\ rates_i' = rates_i + 1
              /\ rates_pc' = "loop"
         ELSE /\ rates_pc' = "ValueError"
              /\ UNCHANGED <<rates_i, rate>>
    /\ UNCHANGED <<rate_plan, rates_returned, dispatch_vars, fin_vars, orch_vars, aux_vars>>

\* The loop is over: the array is returned.
RatesReturn ==
    /\ rates_pc = "loop"
    /\ rates_i = HoursPerYear
    /\ rates_pc' = "done"
    /\ rates_returned' = "ndarray"
    /\ UNCHANGED <<rate_plan, rates_i, rate, dispatch_vars, fin_vars, orch_vars, aux_vars>>

NextRates == RatesFallback \/ RatesBegin \/ RateStep \/ RatesReturn

\* ---- calculate_final_financials ----
\* Money is an integer number of cents; ratios (years, percent) are integers
\* in hundredths. Products with a rate or a factor round to the nearest.

BASE_ITC_RATE == 30
NET_METER_CREDIT_FACTOR == 75
MACRS_TAX_RATE == 21
LOAN_RATE == 6
\* The 0.85 of macrs_basis * 0.85 * MACRS_TAX_RATE
MacrsBasisShare == 85
\* float('inf')
Infinity == 999999999

\* Values of the synthetic dispatch result, rates and capex a caller passes.
SolarToLoadValues == {-100, 0, 100}
BatteryToLoadValues == {0, 200}
ExportValues == {0, 300}
RateValues == {35000, 55000}
CapexValues == {0, 1000000}
UserTypes == {"Homeowner", "Commercial / Business"}

\* energy [1/100 kWh] * rate [1/100000 $/kWh], in cents
TimesRate(e, r) == RoundDiv(e * r, 100000)
\* energy * rate * NET_METER_CREDIT_FACTOR, in cents
\* Mutant: exports are credited at the full rate.
ExportCredit_NoFactor(e, r) == RoundDiv(e * r, 100000)
ExportCredit(e, r) == RoundDiv(RoundDiv(e * r, 1000) * NET_METER_CREDIT_FACTOR, 10000)
\* np.sum(a * hourly_rates) over the first n hours
RECURSIVE SumTimesRate(_, _, _)
SumTimesRate(a, rates, n) ==
    IF n = 0 THEN 0 ELSE TimesRate(a[n], rates[n]) + SumTimesRate(a, rates, n - 1)
RECURSIVE SumExportCredit(_, _, _)
SumExportCredit(a, rates, n) ==
    IF n = 0 THEN 0 ELSE ExportCredit(a[n], rates[n]) + SumExportCredit(a, rates, n - 1)

CostAvoidedBySolar(stl, rates) == SumTimesRate(stl, rates, Len(stl))
CostAvoidedByBattery(btl, rates) == SumTimesRate(btl, rates, Len(btl))
AnnualExportRevenue(ex, rates) == SumExportCredit(ex, rates, Len(ex))
TotalAnnualSavings(stl, btl, ex, rates) ==
    CostAvoidedBySolar(stl, rates) + CostAvoidedByBattery(btl, rates)
        + AnnualExportRevenue(ex, rates)

ItcVal(c) == RoundDiv(c * BASE_ITC_RATE, 100)
MacrsBasis(c) == c - RoundDiv(ItcVal(c) * 5, 10)
\* Mutant: the depreciation benefit is granted to every user type.
MacrsVal_AnyUser(c, u) ==
    RoundDiv(RoundDiv(MacrsBasis(c) * MacrsBasisShare, 100) * MACRS_TAX_RATE, 100)
MacrsVal(c, u) ==
    IF u = "Commercial / Business"
    THEN RoundDiv(RoundDiv(MacrsBasis(c) * MacrsBasisShare, 100) * MACRS_TAX_RATE, 100)
    ELSE 0
NetCost(c, u) == c - ItcVal(c) - MacrsVal(c, u)
\* net_cost / total_annual_savings, in hundredths of a year
\* Mutant: the division is guarded against negative savings only.
Payback_ZeroUnguarded(net, savings) ==
    IF savings >= 0 THEN Quotient(net, savings) ELSE Infinity
Payback(net, savings) == IF savings > 0 THEN Quotient(net, savings) ELSE Infinity
\* ((total_annual_savings * 25 - net_cost) / net_cost) * 100, in hundredths
\* of a percent
Roi25Yr(net, savings) ==
    IF net > 0 THEN TimesHundred(Quotient(savings * 25 - net, net)) ELSE Infinity

\* ---- the monthly cash-flow table ----
\* The modelled hours stand at every HourStride-th timestamp of hourly_index,
\* so that some of them share a month and some do not.
HourStride == 500
HourlyIndex(k) == (k - 1) * HourStride
\* the month of each modelled hour (the bin resample("ME") puts it in)
MonthOfHour == [k \in 1 .. NumHours |-> TsMonth(HourlyIndex(k))]
MonthsPerYear == 12
\* series.resample("ME").sum(): the sum of the month's hours, 0 for a month
\* that holds none of them
RECURSIVE ResampleSum(_, _, _)
ResampleSum(a, m, n) ==
    IF n = 0 THEN 0
    ELSE (IF MonthOfHour[n] = m THEN a[n] ELSE 0)
             + ResampleSum(a, m, n - 1)
\* a * hourly_rates and hourly_export * hourly_rates * NET_METER_CREDIT_FACTOR,
\* hour by hour, in cents
SeriesTimesRate(a, rates) == [k \in 1 .. Len(a) |-> TimesRate(a[k], rates[k])]
\* Mutant: the table credits exports at the full rate.
SeriesExportCredit_FullRate(a, rates) == [k \in 1 .. Len(a) |-> TimesRate(a[k], rates[k])]
SeriesExportCredit(a, rates) == [k \in 1 .. Len(a) |-> ExportCredit(a[k], rates[k])]
\* (net_cost * LOAN_RATE) / 12 if net_cost > 0 else 0, in cents
\* Mutant: the year's interest is charged every month.
MonthlyPayment_Yearly(net) == IF net > 0 THEN RoundDiv(net * LOAN_RATE, 100) ELSE 0
MonthlyPayment(net) == IF net > 0 THEN RoundDiv(net * LOAN_RATE, 1200) ELSE 0
\* The columns of one month of monthly_df, in the order the code adds them.
MonthRow(m, stl, btl, imp, ex, load, rates, net) ==
    LET n == Len(rates)
        import_cost == ResampleSum(SeriesTimesRate(imp, rates), m, n)
        export_revenue == ResampleSum(SeriesExportCredit(ex, rates), m, n)
        original_bill == ResampleSum(SeriesTimesRate(load, rates), m, n)
        new_bill == import_cost - export_revenue
        savings == original_bill - new_bill
    IN  [Import_kWh |-> ResampleSum(imp, m, n),
         Export_kWh |-> ResampleSum(ex, m, n),
         Remaining_Grid_Import_Cost |-> import_cost,
         Net_Export_Revenue |-> export_revenue,
         Original_Bill_Cost |-> original_bill,
         Cost_Avoided_by_Solar |-> ResampleSum(SeriesTimesRate(stl, rates), m, n),
         Cost_Avoided_by_Battery |-> ResampleSum(SeriesTimesRate(btl, rates), m, n),
         New_Bill |-> new_bill,
         Monthly_Savings |-> savings,
         Loan_Payment |-> 0 - MonthlyPayment(net),
         Net_Cash_Flow |-> savings - MonthlyPayment(net)]
MonthlyDf(stl, btl, imp, ex, load, rates, net) ==
    [m \in 1 .. MonthsPerYear |-> MonthRow(m, stl, btl, imp, ex, load, rates, net)]

\* calculate_final_financials is called with a synthetic dispatch result.
InitFin ==
    /\ solar_to_load \in [1..NumHours -> SolarToLoadValues]
    /\ battery_to_load \in [1..NumHours -> BatteryToLoadValues]
    /\ export_kwh \in [1..NumHours -> ExportValues]
    /\ hourly_rates \in [1..NumHours -> RateValues]
    /\ capex \in CapexValues
    /\ user_type \in UserTypes
    /\ fin_pc = "call"
    /\ NoFinancials
    /\ import_kwh = Zeros
    /\ solar_to_battery = Zeros
    /\ hourly_load = Zeros
    /\ hourly_solar = Zeros
    /\ battery_kwh = 0
    /\ inverter_size_kw = 0
    /\ min_battery_reserve_pct = 0
    /\ self_consumption_priority = FALSE
    /\ tou_enabled = FALSE
    /\ peak_hours = {}
    /\ pc = "done"
    /\ hour = NumHours
    /\ soc = 0
    /\ L = 0
    /\ S_ac = 0
    /\ discharge_amount = 0
    /\ annual_import_kwh = 0
    /\ annual_export_kwh = 0
    /\ self_consumption_rate_percent = 0
    /\ grid_independence_rate_percent = 0
    /\ RatesIdle
    /\ OrchIdle
    /\ AuxIdle

\* The whole call: savings, incentives, net cost, payback, ROI and the
\* monthly table.
Financials ==
    /\ fin_pc = "call"
    /\ LET savings == TotalAnnualSavings(solar_to_load, battery_to_load,
                                         export_kwh, hourly_rates)
           net == NetCost(capex, user_type)
       IN  /\ total_annual_savings' = savings
           /\ itc_amount' = ItcVal(capex)
           /\ macrs_benefit' = MacrsVal(capex, user_type)
           /\ net_cost' = net
           /\ payback_years' = Payback(net, savings)
           /\ roi_percent_25_yr' = Roi25Yr(net, savings)
           /\ monthly_cash_flow_df' =
                  MonthlyDf(solar_to_load, battery_to_load, import_kwh,
                            export_kwh, hourly_load, hourly_rates, net)
    /\ fin_pc' = "done"
    /\ UNCHANGED <<fin_args, dispatch_vars, rates_vars, orch_vars, aux_vars>>

NextFin == Financials

\* calculate_final_financials is called with a flat load profile and an
\* import and an export series of its caller's choice.
BilledLoadValues == {0, 500}
ImportValues == {0, 400}
InitCash ==
    /\ hourly_load \in {[i \in 1..NumHours |-> v] : v \in BilledLoadValues}
    /\ import_kwh \in [1..NumHours -> ImportValues]
    /\ export_kwh \in [1..NumHours -> ExportValues]
    /\ solar_to_load \in {[i \in 1..NumHours |-> v] : v \in SolarToLoadValues}
    /\ battery_to_load = Zeros
    /\ hourly_rates \in [1..NumHours -> RateValues]
    /\ capex \in CapexValues
    /\ user_type \in UserTypes
    /\ fin_pc = "call"
    /\ NoFinancials
    /\ solar_to_battery = Zeros
    /\ hourly_solar = Zeros
    /\ battery_kwh = 0
    /\ inverter_size_kw = 0
    /\ min_battery_reserve_pct = 0
    /\ self_consumption_priority = FALSE
    /\ tou_enabled = FALSE
    /\ peak_hours = {}
    /\ pc = "done"
    /\ hour = NumHours
    /\ soc = 0
    /\ L = 0
    /\ S_ac = 0
    /\ discharge_amount = 0
    /\ annual_import_kwh = 0
    /\ annual_export_kwh = 0
    /\ self_consumption_rate_percent = 0
    /\ grid_independence_rate_percent = 0
    /\ RatesIdle
    /\ OrchIdle
    /\ AuxIdle

\* ---- perform_solar_battery_calculations ----

DEFAULT_DC_AC_RATIO == 125
\* PV_COST_PER_WATT * 1000, in cents per kW
SOLAR_SYSTEM_COST_PER_KW == 350000
\* The PVWatts capacity limit, in kW
PvwattsCapacityLimit == 500000

\* geocode_address_nominatim(address), given what the geocoder answers.
GeocodeAddressNominatim(address, response) ==
    IF address = "" THEN Str("Address not provided.")
    ELSE CASE response = "found" -> Tuple(<<37, -122>>)
           [] response = "empty" -> Str("Address not found by Nominatim.")
           [] response = "RequestException" -> Str("Geocoding API error")
           [] OTHER -> Str("Geocoding parsing error")
\* a, b = v succeeds exactly when v has two items (a string: two characters).
CanUnpackTwo(v) ==
    IF v.kind = "str" THEN Len(v.text) = 2 ELSE Len(v.items) = 2

\* get_battery_specs(backup_pref), in 1/100 kWh
GetBatterySpecs(backup_pref) ==
    IF backup_pref = "Essentials Only (10 kWh)" THEN 1000
    ELSE IF backup_pref = "Whole House Backup (25 kWh)" THEN 2500
    ELSE 0

\* fetch_pvwatts_hourly_production(lat, lon, system_capacity_kw), given the
\* API key's presence and what PVWatts answers; lat_lon is <<>> when None.
FetchPvwattsHourlyProduction(api_key, lat_lon, system_capacity_kw, response) ==
    IF ~api_key THEN Str("NREL API Key is missing.")
    ELSE IF lat_lon = <<>>
         THEN Str("Latitude, longitude, or system capacity missing for PVWatts.")
    ELSE IF system_capacity_kw <= 0 THEN Tuple([h \in 1..NumHours |-> 0])
    ELSE IF system_capacity_kw > PvwattsCapacityLimit
         THEN Str("Invalid system capacity")
    ELSE CASE response.kind = "list" -> response
           [] response.text = "errors" -> Str("PVWatts API response error")
           [] OTHER -> Str("PVWatts API call error")

\* bool(v) of a string, list or tuple
Truthy(v) ==
    CASE v.kind = "str" -> v.text # ""
      [] v.kind = "list" -> v.items # <<>>
      [] OTHER -> TRUE
\* sum(v) raises TypeError unless v is a list of numbers: a string adds a
\* character to 0, the tuple (list, None) adds a list to 0.
SumRaises(v) == Truthy(v) /\ v.kind # "list"
\* calculate_future_electrification_load for a form without EV or heat-pump
\* entries: None > 0 raises TypeError, which is caught, and 0.0 is returned.
NoFutureLoad == 0
\* synthesize_hourly_load_profile(annual_kwh, user_type): one hour's entry
HourlyLoadEntry(annual, u) ==
    IF annual <= 0 /\ u = "Homeowner" THEN 0 ELSE RoundDiv(annual, HoursPerYear)
\* np.array(hourly_solar) * DEFAULT_DC_AC_RATIO
EstimateDC(ac) == [h \in DOMAIN ac |-> RoundDiv(ac[h] * DEFAULT_DC_AC_RATIO, 100)]
\* The values the rate array of a plan holds.
RateArrayValues ==
    [name \in RatePlanChoices |->
        {HourlyRates(name)[i] : i \in 0 .. (HoursPerYear - 1)}]
\* hour % 24 in peak_hours, for peak_hours an array of rates in $/kWh: the
\* hours of the day that equal some rate, i.e. the rates of a whole number of
\* dollars.
HoursAmongRates(rates) == {r \div 100000 : r \in {x \in rates : x % 100000 = 0}}
PeakHoursOfPlan(name) == TOU_SCHEDULE_CONFIG[name].hours
\* The first NumHours entries of the rate array.
FirstRates(name) == [h \in 1..NumHours |-> HourlyRates(name)[h - 1]]

\* The forms a user submits and the answers of the outside world.
FormChoices ==
    [address : {"", "94105"},
     system_size_kw : {0, 5, 600000},
     inverter_size_kw : {5000},
     backup_pref : {"Essentials Only (10 kWh)", "No Backup"},
     rate_plan : {"Residential E-TOU-C", "Ag Rate AG-4B (Summer Peak)", "Commercial B-10"},
     tou_enabled : BOOLEAN,
     self_consumption_priority : BOOLEAN,
     min_battery_reserve_pct : {0},
     annual_kwh_est : {876000, 8760},
     user_type : {"Homeowner"},
     calc_battery_cost : {70000}]
EnvChoices ==
    [geocoder : {"found", "empty", "RequestException"},
     api_key : BOOLEAN,
     pvwatts : {List(<<6000>> \o [h \in 1..(NumHours - 1) |-> 0]),
                Str("errors"), Str("RequestException")}]

InitOrch ==
    /\ form_inputs \in FormChoices
    /\ env \in EnvChoices
    /\ orch_pc = "geocode"
    /\ results = [lat_lon |-> <<>>, geo_error |-> "None", pv_error |-> "None",
                  ac_annual |-> <<>>, battery_kwh |-> 0, pv_system_cost |-> 0,
                  battery_cost |-> 0, backup_duration_days |-> 0]
    /\ fetched = Str("None")
    /\ exception = "none"
    /\ DispatchIdle
    /\ RatesIdle
    /\ FinIdle
    /\ AuxIdle

\* 1. Geocode: the returned value is unpacked into lat and lon, then
\* results["geo_error"] is tested.
Geocode ==
    /\ orch_pc = "geocode"
    /\ LET v == GeocodeAddressNominatim(form_inputs.address, env.geocoder) IN
         IF CanUnpackTwo(v)
         THEN /\ results' = [results EXCEPT !.lat_lon = v.items]
              /\ orch_pc' = IF results.geo_error # "None" THEN "returned" ELSE "battery"
              /\ UNCHANGED exception
         ELSE /\ exception' = "ValueError"
              /\ orch_pc' = "raised"
              /\ UNCHANGED results
    /\ UNCHANGED <<form_inputs, env, fetched, dispatch_vars, rates_vars, fin_vars, aux_vars>>

\* 2. Battery sizing
BatterySizing ==
    /\ orch_pc = "battery"
    /\ results' = [results EXCEPT !.battery_kwh = GetBatterySpecs(form_inputs.backup_pref)]
    /\ orch_pc' = "pv"
    /\ UNCHANGED <<form_inputs, env, fetched, exception, dispatch_vars, rates_vars, fin_vars, aux_vars>>

\* 3. Hourly PVWatts: the fetch, the test of results["pv_error"], the annual
\* sum.
FetchPv ==
    /\ orch_pc = "pv"
    /\ LET v == FetchPvwattsHourlyProduction(env.api_key, results.lat_lon,
                                             form_inputs.system_size_kw, env.pvwatts)
       IN  /\ fetched' = v
           /\ IF results.pv_error # "None"
              THEN /\ orch_pc' = "returned"
                   /\ UNCHANGED <<results, exception>>
              ELSE IF SumRaises(v)
              THEN /\ exception' = "TypeError"
                   /\ orch_pc' = "raised"
                   /\ UNCHANGED results
              ELSE /\ results' = [results EXCEPT
                                     !.ac_annual = <<IF Truthy(v) THEN Sum(v.items) ELSE 0>>]
                   /\ orch_pc' = "dispatch"
                   /\ UNCHANGED exception
    /\ UNCHANGED <<form_inputs, env, dispatch_vars, rates_vars, fin_vars, aux_vars>>

\* 4-6. The DC estimate, the load profile and the rate schedule are built and
\* run_hourly_dispatch_simulation is entered with peak_hours=hourly_rates.
CallDispatch ==
    /\ orch_pc = "dispatch"
    /\ LET total_projected_annual_kwh == form_inputs.annual_kwh_est + NoFutureLoad IN
         hourly_load' = [h \in 1..NumHours |->
                            HourlyLoadEntry(total_projected_annual_kwh, form_inputs.user_type)]
    /\ hourly_solar' = EstimateDC(fetched.items)
    /\ inverter_size_kw' = form_inputs.inverter_size_kw
    /\ battery_kwh' = results.battery_kwh
    /\ min_battery_reserve_pct' = form_inputs.min_battery_reserve_pct
    /\ self_consumption_priority' = form_inputs.self_consumption_priority
    /\ tou_enabled' = form_inputs.tou_enabled
    /\ peak_hours' = HoursAmongRates(RateArrayValues[form_inputs.rate_plan])
    /\ rate_plan' = form_inputs.rate_plan
    /\ rates_pc' = "done"
    /\ rates_i' = HoursPerYear
    /\ rate' = HourlyRates(form_inputs.rate_plan)[HoursPerYear - 1]
    /\ rates_returned' = "ndarray"
    /\ pc' = "loop"
    /\ hour' = 0
    /\ soc' = 0
    /\ L' = 0
    /\ S_ac' = 0
    /\ discharge_amount' = 0
    /\ import_kwh' = Zeros
    /\ export_kwh' = Zeros
    /\ solar_to_load' = Zeros
    /\ solar_to_battery' = Zeros
    /\ battery_to_load' = Zeros
    /\ orch_pc' = "in_dispatch"
    /\ UNCHANGED <<kpis, form_inputs, env, results, fetched, exception, fin_vars, aux_vars>>

\* 7. The dispatch has returned: the costs are set and
\* calculate_final_financials is entered.
CallFinancials ==
    /\ orch_pc = "in_dispatch"
    /\ pc = "done"
    /\ LET solar_system_cost == form_inputs.system_size_kw * SOLAR_SYSTEM_COST_PER_KW
           battery_cost == RoundDiv(battery_kwh * form_inputs.calc_battery_cost, 100)
       IN  /\ results' = [results EXCEPT !.pv_system_cost = solar_system_cost,
                                         !.battery_cost = battery_cost]
           /\ capex' = solar_system_cost + battery_cost
    /\ hourly_rates' = FirstRates(rate_plan)
    /\ user_type' = form_inputs.user_type
    /\ fin_pc' = "call"
    /\ orch_pc' = "in_financials"
    /\ UNCHANGED <<financials, form_inputs, env, fetched, exception, dispatch_vars, rates_vars, aux_vars>>

\* The financials have returned: the backup duration is added and the bundle
\* is returned.
OrchReturn ==
    /\ orch_pc = "in_financials"
    /\ fin_pc = "done"
    /\ LET avg_daily_load == RoundDiv(form_inputs.annual_kwh_est + NoFutureLoad, 365) IN
         results' = [results EXCEPT !.backup_duration_days =
                        IF avg_daily_load > 0
                        THEN RoundDiv(results.battery_kwh * 100, avg_daily_load)
                        ELSE 0]
    /\ orch_pc' = "returned"
    /\ UNCHANGED <<form_inputs, env, fetched, exception, dispatch_vars, rates_vars, fin_vars, aux_vars>>

NextOrch ==
    \/ Geocode \/ BatterySizing \/ FetchPv \/ CallDispatch
    \/ BeginHour \/ Charge \/ SolarToLoad \/ HandleRemainingSolar
    \/ Discharge \/ Import \/ Return
    \/ CallFinancials \/ Financials \/ OrchReturn

\* ---- synthesize_hourly_load_profile ----
\* The entries are exact fractions <<numerator, denominator>>.

\* The annual totals a caller passes, in kWh.
AnnualKwhValues == {0} \cup {365 * k : k \in 1 .. 40}
\* Mutant: the total is spread over the hours of a leap year.
SynthesizeHourlyLoadProfile_LeapYear(annual, u) ==
    IF annual <= 0 /\ u = "Homeowner"
    THEN [i \in 1 .. HoursPerYear |-> <<0, 1>>]
    ELSE [i \in 1 .. HoursPerYear |-> <<annual, HoursPerYear + 24>>]
\* [0.0] * 8760, or [annual_kwh / 8760.0] * 8760
SynthesizeHourlyLoadProfile(annual, u) ==
    IF annual <= 0 /\ u = "Homeowner"
    THEN [i \in 1 .. HoursPerYear |-> <<0, 1>>]
    ELSE [i \in 1 .. HoursPerYear |-> <<annual, HoursPerYear>>]

InitSynth ==
    /\ annual_kwh \in AnnualKwhValues
    /\ profile_user_type \in UserTypes
    /\ synth_pc = "call"
    /\ load_profile = <<>>
    /\ future_pc = "idle"
    /\ ev_miles = None
    /\ ev_efficiency = None
    /\ heat_pump_btu = None
    /\ heat_pump_cop = None
    /\ additional_kwh = 0
    /\ AppIdle
    /\ DispatchIdle
    /\ RatesIdle
    /\ FinIdle
    /\ OrchIdle

\* The whole call.
Synthesize ==
    /\ synth_pc = "call"
    /\ load_profile' = SynthesizeHourlyLoadProfile(annual_kwh, profile_user_type)
    /\ synth_pc' = "done"
    /\ UNCHANGED <<annual_kwh, profile_user_type, future_vars, login_vars,
                   dispatch_vars, rates_vars, fin_vars, orch_vars>>

NextSynth == Synthesize

\* ---- calculate_future_electrification_load ----
\* Miles and BTU are whole numbers, the EV efficiency and the COP are in
\* tenths, the result is in 1/100 kWh.

\* 1 kWh = 3412 BTU
BtuPerKwh == 3412
\* The arguments a caller passes: a number, or None for a missing entry.
EvMilesValues == {None, Num(0), Num(6000), Num(12000)}
EvEfficiencyValues == {None, Num(0), Num(40)}
HeatPumpBtuValues == {None, Num(0), Num(20000000)}
HeatPumpCopValues == {None, Num(30)}

\* The number a value holds.
Val(v) == v.items[1]
\* `a > 0 and b > 0` raises TypeError when a is not a number, or when a is
\* positive and b is not a number (b is not evaluated otherwise).
TestRaises(a, b) == a.kind # "num" \/ (Val(a) > 0 /\ b.kind # "num")
\* a > 0 and b > 0, for a test that does not raise
BothPositive(a, b) == Val(a) > 0 /\ Val(b) > 0
\* float(ev_miles) / float(ev_efficiency)
EvKwh(miles, eff) == RoundDiv(Val(miles) * 1000, Val(eff))
\* (float(heat_pump_btu) / 3412.0) / float(heat_pump_cop)
HeatPumpKwh(btu, cop) == RoundDiv(RoundDiv(Val(btu) * 100, BtuPerKwh) * 10, Val(cop))
\* The try block: a TypeError of either test is caught and 0.0 is returned.
CalculateFutureElectrificationLoad(miles, eff, btu, cop) ==
    IF TestRaises(miles, eff) THEN 0
    ELSE LET after_ev == IF BothPositive(miles, eff) THEN EvKwh(miles, eff) ELSE 0 IN
         IF TestRaises(btu, cop) THEN 0
         ELSE IF BothPositive(btu, cop)
              THEN after_ev + HeatPumpKwh(btu, cop)
              ELSE after_ev

InitFuture ==
    /\ ev_miles \in EvMilesValues
    /\ ev_efficiency \in EvEfficiencyValues
    /\ heat_pump_btu \in HeatPumpBtuValues
    /\ heat_pump_cop \in HeatPumpCopValues
    /\ future_pc = "call"
    /\ additional_kwh = 0
    /\ synth_pc = "idle"
    /\ annual_kwh = 0
    /\ profile_user_type = "none"
    /\ load_profile = <<>>
    /\ AppIdle
    /\ DispatchIdle
    /\ RatesIdle
    /\ FinIdle
    /\ OrchIdle

\* The whole call.
FutureLoad ==
    /\ future_pc = "call"
    /\ additional_kwh' = CalculateFutureElectrificationLoad(ev_miles, ev_efficiency,
                                                            heat_pump_btu, heat_pump_cop)
    /\ future_pc' = "done"
    /\ UNCHANGED <<ev_miles, ev_efficiency, heat_pump_btu, heat_pump_cop, synth_vars,
                   login_vars, dispatch_vars, rates_vars, fin_vars, orch_vars>>

NextFuture == FutureLoad

\* ---- sharkbite_app.py: the login gate ----

\* What a user types into the forms.
UsernameValues == {"", "user", "testuser"}
PasswordValues == {"", "pass", "password"}
SignupValues == {"", "new"}

\* What a run of the script shows: a screen and the message on it.
Shows(screen, message) == [screen |-> screen, message |-> message]
\* Mutant: a username alone is enough to log in.
LoginAccepted_UserOnly(u, p) == u # ""
\* if username and password:
LoginAccepted(u, p) == u # "" /\ p # ""

\* The first run of the script: the session state is initialised and the
\* login screen is shown to the user who is not logged in.
InitApp ==
    /\ current_screen = "login"
    /\ logged_in = FALSE
    /\ username = ""
    /\ main_login_user = ""
    /\ main_login_pass = ""
    /\ main_signup_user = ""
    /\ main_signup_pass = ""
    /\ displayed = Shows("login", "")
    /\ HelpersIdle
    /\ DispatchIdle
    /\ RatesIdle
    /\ FinIdle
    /\ OrchIdle

app_outside == <<synth_vars, future_vars, dispatch_vars, rates_vars, fin_vars, orch_vars>>

\* The user fills in a field of the login or the signup form (a form field
\* triggers no run of the script).
EditForm ==
    /\ ~logged_in
    /\ \/ \E u \in UsernameValues :
            /\ main_login_user' = u
            /\ UNCHANGED <<main_login_pass, main_signup_user, main_signup_pass>>
       \/ \E p \in PasswordValues :
            /\ main_login_pass' = p
            /\ UNCHANGED <<main_login_user, main_signup_user, main_signup_pass>>
       \/ \E u \in SignupValues :
            /\ main_signup_user' = u
            /\ UNCHANGED <<main_login_user, main_login_pass, main_signup_pass>>
       \/ \E p \in SignupValues :
            /\ main_signup_pass' = p
            /\ UNCHANGED <<main_login_user, main_login_pass, main_signup_user>>
    /\ UNCHANGED <<logged_in, username, current_screen, displayed, app_outside>>

\* The Login button: display_login_screen returns the username or shows an
\* error; on a username the router logs the session in and reruns the script,
\* which shows the welcome dashboard.
SubmitLogin ==
    /\ ~logged_in
    /\ IF LoginAccepted(main_login_user, main_login_pass)
       THEN /\ logged_in' = TRUE
            /\ username' = main_login_user
            /\ current_screen' = "welcome_logged_in"
            /\ displayed' = Shows("welcome_logged_in", "")
       ELSE /\ displayed' = Shows("login", "Please enter correct username and password.")
            /\ UNCHANGED <<logged_in, username, current_screen>>
    /\ UNCHANGED <<main_login_user, main_login_pass, main_signup_user, main_signup_pass,
                   app_outside>>

\* The Sign Up button: a message, and the session is as it was.
SubmitSignup ==
    /\ ~logged_in
    /\ displayed' = IF main_signup_user # "" /\ main_signup_pass # ""
                    THEN Shows("login", "Please proceed to log in with new credentials.")
                    ELSE Shows("login", "Please fill up all the fields.")
    /\ UNCHANGED <<logged_in, username, current_screen, main_login_user, main_login_pass,
                   main_signup_user, main_signup_pass, app_outside>>

\* Start New Project on the welcome dashboard
StartNewProject ==
    /\ logged_in
    /\ current_screen = "welcome_logged_in"
    /\ current_screen' = "unified_intake"
    /\ displayed' = Shows("unified_intake", "")
    /\ UNCHANGED <<logged_in, username, main_login_user, main_login_pass,
                   main_signup_user, main_signup_pass, app_outside>>

\* Back to Main / Start Over in the sidebar
BackToMain ==
    /\ logged_in
    /\ current_screen' = "welcome_logged_in"
    /\ displayed' = Shows("welcome_logged_in", "")
    /\ UNCHANGED <<logged_in, username, main_login_user, main_login_pass,
                   main_signup_user, main_signup_pass, app_outside>>

\* Logout in the sidebar: every key of the session state is deleted and the
\* rerun initialises the session again.
Logout ==
    /\ logged_in
    /\ current_screen' = "login"
    /\ logged_in' = FALSE
    /\ username' = ""
    /\ main_login_user' = ""
    /\ main_login_pass' = ""
    /\ main_signup_user' = ""
    /\ main_signup_pass' = ""
    /\ displayed' = Shows("login", "")
    /\ UNCHANGED app_outside

NextApp ==
    \/ EditForm \/ SubmitLogin \/ SubmitSignup
    \/ StartNewProject \/ BackToMain \/ Logout

Next ==
    \/ BeginHour
    \/ Charge
    \/ SolarToLoad
    \/ HandleRemainingSolar
    \/ Discharge
    \/ Import
    \/ Return

Spec == Init /\ [][Next]_vars
SpecRates == InitRates /\ [][NextRates]_vars
SpecFin == InitFin /\ [][NextFin]_vars
SpecCash == InitCash /\ [][NextFin]_vars
SpecOrch == InitOrch /\ [][NextOrch]_vars
SpecSynth == InitSynth /\ [][NextSynth]_vars
SpecFuture == InitFuture /\ [][NextFuture]_vars
SpecApp == InitApp /\ [][NextApp]_vars

\* ================================================================ claims
Hours == 0..(NumHours - 1)
\* Hour h is finished: its import step has run.
Finished(h) == h < hour
\* The current hour's body has been entered (hour indexes a real hour).
InHour == pc \in {"charge", "to_load", "export", "discharge", "import"}

\* C1: in every finished hour, solar_to_load + battery_to_load + import
\* equals the hour's load.
C1_LoadAccounted ==
    \A h \in Hours :
        Finished(h) =>
            At(solar_to_load, h) + At(battery_to_load, h) + At(import_kwh, h)
                = At(hourly_load, h)

\* C1 witness: a finished hour whose load was met from all three sources.
C1_Witness ==
    \E h \in Hours :
        /\ Finished(h)
        /\ At(solar_to_load, h) > 0
        /\ At(battery_to_load, h) > 0
        /\ At(import_kwh, h) > 0

\* C2: the state of charge stays within 0..battery_kwh, after the charge
\* step, after the discharge step and at the end of every hour.
C2_SocBounds == 0 <= soc /\ soc <= battery_kwh

\* C2 witness: an hour that both charged and discharged the battery.
C2_Witness ==
    /\ pc = "import"
    /\ At(solar_to_battery, hour) > 0
    /\ discharge_amount > 0
    /\ soc < battery_kwh

\* C3 as stated: at the end of any hour in which the discharge-timing
\* policy permitted discharge, soc is at least min_soc.
C3_FloorWhenPermitted ==
    (pc = "loop" /\ hour > 0
        /\ DischargeDecision(tou_enabled, self_consumption_priority,
                             IsPeakHour(hour - 1, peak_hours)))
    => soc >= min_soc_kwh

\* C3 amended: the discharge step never takes soc below min_soc: an hour
\* that reaches its discharge step with soc >= min_soc ends with
\* soc >= min_soc, and so does every hour in which the battery discharged.
C3_FloorWhenDischarged ==
    /\ [][(pc = "discharge" /\ soc >= min_soc_kwh) => soc' >= min_soc_kwh]_vars
    /\ []((pc = "import" /\ discharge_amount > 0) => soc >= min_soc_kwh)
    /\ []((pc = "loop" /\ hour > 0 /\ At(battery_to_load, hour - 1) > 0)
             => soc >= min_soc_kwh)

\* C3 witness: a discharge that stopped at a positive reserve floor.
C3_Witness ==
    /\ pc = "loop" /\ hour > 0
    /\ At(battery_to_load, hour - 1) > 0
    /\ min_soc_kwh > 0
    /\ soc = min_soc_kwh

\* C4: with load still unmet after solar and soc above the floor, the
\* battery discharges exactly when (TOU enabled and peak hour) or
\* self-consumption priority; so without self-consumption priority
\* battery_to_load is 0 in every off-peak hour under TOU and in every hour
\* without TOU.
C4_DischargeTiming ==
    /\ [][(pc = "discharge" /\ L > 0 /\ soc > min_soc_kwh)
            => ((soc' < soc /\ battery_to_load'[hour + 1] > 0)
                  <=> ((tou_enabled /\ is_peak_hour) \/ self_consumption_priority))]_vars
    /\ [](\A h \in Hours :
            (Finished(h) /\ ~self_consumption_priority
               /\ (~tou_enabled \/ ~IsPeakHour(h, peak_hours)))
            => At(battery_to_load, h) = 0)

\* C4 witness: a peak-hour discharge without self-consumption priority.
C4_Witness ==
    /\ pc = "import"
    /\ discharge_amount > 0
    /\ tou_enabled /\ is_peak_hour /\ ~self_consumption_priority

\* C5: with self-consumption priority and the battery below full when the
\* export decision is taken, leftover AC solar is not exported.
C5_NoExportBelowFull ==
    (pc \in {"discharge", "import"} /\ self_consumption_priority
        /\ S_ac > 0 /\ soc < battery_kwh)
    => At(export_kwh, hour) = 0

\* C5 witness: leftover AC solar with the battery charged but not full.
C5_Witness ==
    /\ pc = "discharge"
    /\ self_consumption_priority
    /\ S_ac > 0
    /\ 0 < soc /\ soc < battery_kwh

\* C6: without self-consumption priority, the AC solar left after charging
\* and load is exported in full, whatever the state of charge.
C6_ExportLeftover ==
    (pc \in {"discharge", "import"} /\ ~self_consumption_priority /\ S_ac > 0)
    => At(export_kwh, hour) = S_ac

\* C6 witness: leftover exported while the battery still has headroom.
C6_Witness ==
    /\ pc = "discharge"
    /\ ~self_consumption_priority
    /\ S_ac > 0
    /\ soc < battery_kwh
    /\ At(export_kwh, hour) = S_ac

\* C7: with battery_kwh = 0, solar_to_battery and battery_to_load stay the
\* zero series and soc stays 0.
C7_ZeroBattery ==
    battery_kwh = 0 =>
        /\ soc = 0
        /\ solar_to_battery = Zeros
        /\ battery_to_load = Zeros

\* C7 witness: a finished run without battery that had solar and load left
\* over, under the self-consumption policy.
C7_Witness ==
    /\ pc = "done"
    /\ battery_kwh = 0
    /\ self_consumption_priority
    /\ \E h \in Hours : At(hourly_solar, h) > 0 /\ At(import_kwh, h) > 0

\* C8: with battery_kwh = 0 and no self-consumption priority, every
\* finished hour has solar_to_load = min(load, min(solar, inverter)),
\* export = min(solar, inverter) - solar_to_load and
\* import = load - solar_to_load.
C8_PassThrough ==
    (battery_kwh = 0 /\ ~self_consumption_priority) =>
        \A h \in Hours :
            Finished(h) =>
                LET ac == IF At(hourly_solar, h) <= inverter_size_kw
                          THEN At(hourly_solar, h) ELSE inverter_size_kw
                    stl == IF At(hourly_load, h) <= ac
                           THEN At(hourly_load, h) ELSE ac
                IN  /\ At(solar_to_load, h) = stl
                    /\ At(export_kwh, h) = ac - stl
                    /\ At(import_kwh, h) = At(hourly_load, h) - stl

\* C8 witness: solar 60, inverter 50, load 10 gives export 40, import 0,
\* solar_to_load 10.
C8_Witness ==
    /\ battery_kwh = 0 /\ ~self_consumption_priority
    /\ inverter_size_kw = 5000
    /\ \E h \in Hours :
        /\ Finished(h)
        /\ At(hourly_solar, h) = 6000 /\ At(hourly_load, h) = 1000
        /\ At(export_kwh, h) = 4000
        /\ At(import_kwh, h) = 0
        /\ At(solar_to_load, h) = 1000

\* C9: a discharge takes min(soc - min_soc, load_remaining / 0.96) from the
\* battery, lowers soc by that amount, serves that amount * 0.96 to the
\* load, and the import is the load still unmet afterwards.
C9_DischargeAmounts ==
    /\ [][(pc = "discharge" /\ soc' # soc) =>
            LET byFloor == soc - min_soc_kwh
                byLoad == RoundDiv(L * 100, 96)
                taken == IF byFloor <= byLoad THEN byFloor ELSE byLoad
            IN  /\ discharge_amount' = taken
                /\ soc' = soc - taken
                /\ battery_to_load'[hour + 1] = RoundDiv(taken * 96, 100)
                /\ L' = L - RoundDiv(taken * 96, 100)]_vars
    /\ [][(pc = "import" /\ discharge_amount > 0) =>
            /\ import_kwh'[hour + 1] = L
            /\ L = At(hourly_load, hour) - At(solar_to_load, hour)
                     - At(battery_to_load, hour)]_vars

\* C9 witness: soc 9.0, floor 5.0, load 100 gives battery_to_load 3.84 and
\* import 96.16.
C9_Witness ==
    /\ pc = "loop" /\ hour > 0
    /\ battery_kwh = 1000 /\ min_soc_kwh = 500
    /\ At(hourly_load, hour - 1) = 10000
    /\ At(battery_to_load, hour - 1) = 384
    /\ At(import_kwh, hour - 1) = 9616
    /\ soc = 500

\* C10: no energy is created: once the export decision is taken,
\* solar_to_load + solar_to_battery + export + curtailed is at most the
\* hour's solar, where curtailed >= 0 is the AC solar left unused.
C10_NoEnergyCreated ==
    /\ pc \in {"discharge", "import"} =>
           LET curtailed == S_ac - At(export_kwh, hour)
           IN  /\ curtailed >= 0
               /\ At(solar_to_load, hour) + At(solar_to_battery, hour)
                    + At(export_kwh, hour) + curtailed <= At(hourly_solar, hour)
    /\ \A h \in Hours :
           Finished(h) =>
               At(solar_to_load, h) + At(solar_to_battery, h) + At(export_kwh, h)
                   <= At(hourly_solar, h)

\* C10 witness: an hour with clipped solar that charged the battery, served
\* load and curtailed the rest.
C10_Witness ==
    /\ pc = "import"
    /\ At(hourly_solar, hour) > inverter_size_kw
    /\ At(solar_to_battery, hour) > 0
    /\ At(solar_to_load, hour) > 0
    /\ S_ac > 0
    /\ At(export_kwh, hour) = 0

\* C11 as stated: the reported self-consumption rate is
\* 100 * (sum solar_to_load + sum solar_to_battery) / sum solar, multiplied
\* by 100 once, and lies between 0 and 100.
C11_PercentOnce ==
    pc = "done" =>
        LET consumed == Sum(solar_to_load) + Sum(solar_to_battery)
            production == Sum(hourly_solar)
        IN  /\ self_consumption_rate_percent =
                   (IF production > 0
                    THEN RoundDiv(consumed * 100, production) * 100
                    ELSE 0)
            /\ 0 <= self_consumption_rate_percent
            /\ self_consumption_rate_percent <= 100 * 100

AllZero(s) == \A h \in Hours : At(s, h) = 0

\* C12 as stated: an all-zero load series, or an all-zero solar series,
\* gives a self-consumption rate of 0 and a grid independence rate of 0.
C12_AllZeroRates ==
    (pc = "done" /\ (AllZero(hourly_load) \/ AllZero(hourly_solar)))
    => /\ self_consumption_rate_percent = 0
       /\ grid_independence_rate_percent = 0

\* C12 amended: no rate is ever the result of a division by zero; an
\* all-zero solar series gives both rates 0; an all-zero load series gives
\* a grid independence rate of 0, and a self-consumption rate of 0 when
\* there is no battery to store the solar.
C12_ZeroSeriesRates ==
    (pc = "done") =>
        (/\ self_consumption_rate_percent # NaN
         /\ grid_independence_rate_percent # NaN
         /\ (AllZero(hourly_solar) =>
                (self_consumption_rate_percent = 0
                   /\ grid_independence_rate_percent = 0))
         /\ (AllZero(hourly_load) => grid_independence_rate_percent = 0)
         /\ ((AllZero(hourly_load) /\ battery_kwh = 0) =>
                self_consumption_rate_percent = 0))

\* C12 witness: a finished run without any load whose battery stored solar,
\* so that its self-consumption rate is positive.
C12_Witness ==
    /\ pc = "done"
    /\ AllZero(hourly_load)
    /\ ~AllZero(hourly_solar)
    /\ Sum(solar_to_battery) > 0
    /\ self_consumption_rate_percent > 0
    /\ grid_independence_rate_percent = 0

\* ---- Claims about generate_hourly_rate_schedule ----

\* The hour the loop has just written, when it has written one.
Written == rates_pc = "loop" /\ rates_i > 0
\* The days of 2025, counted from 0, that are in the holiday list.
HolidayDaysOfYear == {0, 19, 47, 145, 184, 243, 314, 330, 358}

\* C20: for every tariff of the catalogue and every hour of the year, the rate
\* is the season's peak rate exactly when the hour of the day is in the
\* tariff's peak window and the day is a weekday that is not a listed holiday,
\* and the season's off-peak rate otherwise; every hour of a listed holiday
\* gets the off-peak rate.
C20_PeakRateExactly ==
    Written =>
        LET i == rates_i - 1
            plan == TOU_SCHEDULE_CONFIG[rate_plan]
            day == i \div 24
            month == TsMonth(i)
            rates == IF "all_year" \in DOMAIN plan.seasons
                     THEN plan.seasons["all_year"]
                     ELSE IF month \in 5 .. 10
                          THEN plan.seasons["summer"]
                          ELSE plan.seasons["winter"]
            weekday == (day + 2) % 7 \in 0 .. 4
            holiday == day \in HolidayDaysOfYear
            peak == (i % 24) \in plan.hours /\ weekday /\ ~holiday
        IN  /\ rates.peak_rate # rates.offpeak_rate
            /\ (rate = rates.peak_rate) <=> peak
            /\ (rate = rates.offpeak_rate) <=> ~peak
            /\ holiday => rate = rates.offpeak_rate
\* A peak-window hour of Monday 20 January, a listed holiday, was written at
\* the off-peak rate.
C20_Witness ==
    /\ Written
    /\ rate_plan = "Residential E-TOU-C"
    /\ rates_i - 1 = 19 * 24 + 17
    /\ rate = 35000

\* ---- Claims about calculate_final_financials ----

\* calculate_final_financials has returned.
FinDone == fin_pc = "done"
\* The sum of f over the hours in S.
RECURSIVE SumOver(_, _)
SumOver(f, S) ==
    IF S = {} THEN 0
    ELSE LET h == CHOOSE x \in S : TRUE IN f[h] + SumOver(f, S \ {h})
\* The three value streams, in cents.
SolarStream ==
    SumOver([h \in 1..NumHours |-> RoundDiv(solar_to_load[h] * hourly_rates[h], 100000)],
            1..NumHours)
BatteryStream ==
    SumOver([h \in 1..NumHours |-> RoundDiv(battery_to_load[h] * hourly_rates[h], 100000)],
            1..NumHours)
ExportStream ==
    SumOver([h \in 1..NumHours |-> RoundDiv(export_kwh[h] * hourly_rates[h] * 75, 10000000)],
            1..NumHours)

\* C16: total_annual_savings is the sum over the hours of solar_to_load x rate,
\* plus that of battery_to_load x rate, plus that of export x rate x 0.75; with
\* an all-zero export series it is the first two sums, and with export only it
\* is the export revenue.
C16_SavingsStreams ==
    FinDone =>
        /\ total_annual_savings = SolarStream + BatteryStream + ExportStream
        /\ AllZero(export_kwh) => total_annual_savings = SolarStream + BatteryStream
        /\ (AllZero(solar_to_load) /\ AllZero(battery_to_load))
               => total_annual_savings = ExportStream
\* All three streams contributed to the savings returned.
C16_Witness ==
    /\ FinDone
    /\ SolarStream > 0 /\ BatteryStream > 0 /\ ExportStream > 0
    /\ total_annual_savings > SolarStream + BatteryStream

\* C17: macrs_benefit is 0 for every user type other than 'Commercial /
\* Business' and, with positive capex, (capex - 0.5 x ITC) x 0.85 x 0.21 > 0
\* for 'Commercial / Business'; itc_amount is 0.30 x capex and net_cost is
\* capex - itc_amount - macrs_benefit for both.
C17_MacrsGating ==
    FinDone =>
        /\ itc_amount = RoundDiv(capex * 3, 10)
        /\ net_cost = capex - itc_amount - macrs_benefit
        /\ user_type # "Commercial / Business" => macrs_benefit = 0
        /\ (user_type = "Commercial / Business" /\ capex > 0) =>
               /\ macrs_benefit =
                      RoundDiv(RoundDiv((2 * capex - itc_amount) * 17, 40) * 21, 100)
               /\ macrs_benefit > 0
\* A commercial derivation with positive capex returned a positive benefit.
C17_Witness ==
    /\ FinDone
    /\ user_type = "Commercial / Business"
    /\ capex > 0
    /\ macrs_benefit > 0
    /\ net_cost < capex - itc_amount

\* C18: the 25-year ROI is ((savings x 25 - net cost) / net cost) x 100 when
\* net cost > 0, and it is the 'infinite' sentinel only if net cost <= 0 and
\* annual savings > 0.
C18_RoiSentinel ==
    FinDone =>
        /\ net_cost > 0 =>
               roi_percent_25_yr =
                   RoundDiv((total_annual_savings * 25 - net_cost) * 100, net_cost) * 100
        /\ roi_percent_25_yr = Infinity =>
               (net_cost <= 0 /\ total_annual_savings > 0)

\* C19: payback_years is net cost / total annual savings when the savings are
\* positive and the 'infinite' sentinel whenever they are zero or negative; it
\* is never the result of a division by zero.
C19_PaybackGuard ==
    FinDone =>
        /\ payback_years # NaN
        /\ total_annual_savings > 0 =>
               payback_years = RoundDiv(net_cost * 100, total_annual_savings)
        /\ total_annual_savings <= 0 => payback_years = Infinity
\* A derivation with a positive net cost and no savings returned the sentinel.
C19_Witness ==
    /\ FinDone
    /\ total_annual_savings = 0
    /\ net_cost > 0
    /\ payback_years = Infinity

\* ---- Claims about perform_solar_battery_calculations ----

\* The dispatch simulation has been entered from the orchestrator with a plan
\* of the catalogue.
DispatchCalledWithPlan ==
    /\ orch_pc = "in_dispatch"
    /\ rate_plan \in DOMAIN TOU_SCHEDULE_CONFIG
\* The stages after the one at orch_pc have not been entered.
NoDispatchNoFinancials == pc = "idle" /\ fin_pc = "idle"

\* C13: in a full proposal calculation the dispatch treats an hour as peak
\* exactly when its hour of the day is in the peak window of the selected
\* plan, so that with TOU enabled and self_consumption_priority false the
\* battery may discharge in those hours.
C13_PeakWindowOfPlan ==
    DispatchCalledWithPlan =>
        /\ \A h \in 0 .. 23 :
               IsPeakHour(h, peak_hours) <=> h \in PeakHoursOfPlan(rate_plan)
        /\ (tou_enabled /\ ~self_consumption_priority) =>
               \A h \in PeakHoursOfPlan(rate_plan) :
                   DischargeDecision(tou_enabled, self_consumption_priority,
                                     IsPeakHour(h, peak_hours))

\* C14: when geocoding fails the orchestrator returns the bundle with a
\* geo_error that describes the failure; it does not raise and enters neither
\* the production fetch nor a later stage.
C14_GeoErrorReturned ==
    (/\ orch_pc \notin {"idle", "geocode"}
     /\ GeocodeAddressNominatim(form_inputs.address, env.geocoder).kind = "str")
    => /\ orch_pc = "returned"
       /\ exception = "none"
       /\ results.geo_error # "None"
       /\ fetched = Str("None")
       /\ NoDispatchNoFinancials

\* C15: when the production fetch returns an error the orchestrator stops and
\* returns the bundle with pv_error set; neither the dispatch simulation nor
\* the financial derivation is run.
C15_PvErrorReturned ==
    (/\ orch_pc \notin {"idle", "geocode", "battery", "pv"}
     /\ fetched.kind = "str"
     /\ fetched # Str("None"))
    => /\ orch_pc = "returned"
       /\ exception = "none"
       /\ results.pv_error # "None"
       /\ NoDispatchNoFinancials

\* C21: for a tariff name that is not in the catalogue the generator does not
\* fail; it returns the flat default rate for all 8760 hours and tells the
\* caller of the fallback by a flag or a type that a real schedule does not
\* have.
C21_FallbackSignalled ==
    (rates_pc \notin {"idle", "start"} /\ rate_plan \notin DOMAIN TOU_SCHEDULE_CONFIG)
    => /\ rates_pc = "done"
       /\ rates_i = HoursPerYear
       /\ LET returned == HourlyRates(rate_plan)
          IN  \A i \in 0 .. (HoursPerYear - 1) : returned[i] = FlatRate
       /\ rate = FlatRate
       /\ rates_returned # "ndarray"

\* ---- Further claims about run_hourly_dispatch_simulation ----

\* C25: a charge draws on clipped DC power first: the part of it covered by
\* the hour's clipped DC power leaves the AC solar pool as it was, and only the
\* rest lowers the pool, by the amount drawn divided by the inverter
\* efficiency.
C25_ClippedFirst ==
    [][(pc = "charge" /\ soc' # soc) =>
          LET clipped == Max(0, At(hourly_solar, hour) - inverter_size_kw)
              avail == clipped + RoundDiv(S_ac * 96, 100)
              charge == Min(avail, battery_kwh - soc)
              fromAC == Max(0, charge - clipped)
          IN  S_ac' = S_ac - RoundDiv(fromAC * 100, 96)]_vars

\* C27: every hourly output of a run is physically bounded: solar_to_load,
\* battery_to_load and import lie between 0 and the hour's load, and export is
\* not negative.
C27_OutputsBounded ==
    \A h \in Hours :
        Finished(h) =>
            /\ 0 <= At(solar_to_load, h) /\ At(solar_to_load, h) <= At(hourly_load, h)
            /\ 0 <= At(battery_to_load, h) /\ At(battery_to_load, h) <= At(hourly_load, h)
            /\ 0 <= At(import_kwh, h) /\ At(import_kwh, h) <= At(hourly_load, h)
            /\ 0 <= At(export_kwh, h)

\* C28: no hour both exports and draws on the grid or the battery.
C28_ExportExcludesDraw ==
    \A h \in Hours :
        (Finished(h) /\ At(export_kwh, h) > 0) =>
            (At(import_kwh, h) = 0 /\ At(battery_to_load, h) = 0)
\* One hour of a run exported, and another drew on the battery and the grid.
C28_Witness ==
    /\ pc = "done"
    /\ \E h \in Hours : At(export_kwh, h) > 0
    /\ \E h \in Hours : At(import_kwh, h) > 0 /\ At(battery_to_load, h) > 0

C22_FlatProfile ==
    synth_pc = "done" =>
        /\ Len(load_profile) = 8760
        /\ \A i \in 1 .. Len(load_profile) :
               load_profile[i][1] * load_profile[1][2]
                   = load_profile[1][1] * load_profile[i][2]
        /\ Len(load_profile) * load_profile[1][1] = annual_kwh * load_profile[1][2]
        /\ (annual_kwh = 0 /\ profile_user_type = "Homeowner") =>
               \A i \in 1 .. Len(load_profile) : load_profile[i][1] = 0
\* A homeowner's 3650 kWh were spread over the year.
C22_Witness ==
    /\ synth_pc = "done"
    /\ profile_user_type = "Homeowner"
    /\ annual_kwh = 3650
    /\ load_profile[8760] = <<3650, 8760>>

\* A positive number (a governing input that is neither missing nor
\* non-positive).
IsPositiveNumber(v) == v.kind = "num" /\ v.items[1] > 0
\* C23: the result is the EV term plus the heat-pump term, each term left out
\* on its own when one of its inputs is missing or not positive; the call
\* returns and its result is not negative.
C23_TermsIndependent ==
    future_pc = "done" =>
        LET ev == IF IsPositiveNumber(ev_miles) /\ IsPositiveNumber(ev_efficiency)
                  THEN RoundDiv(ev_miles.items[1] * 1000, ev_efficiency.items[1])
                  ELSE 0
            hp == IF IsPositiveNumber(heat_pump_btu) /\ IsPositiveNumber(heat_pump_cop)
                  THEN RoundDiv(RoundDiv(heat_pump_btu.items[1] * 100, 3412) * 10,
                                heat_pump_cop.items[1])
                  ELSE 0
        IN  /\ additional_kwh = ev + hp
            /\ additional_kwh >= 0

\* ---- Claims about the login gate ----

\* C24: from a session that is not logged in, a submit of the login form with
\* a non-empty username and a non-empty password sets logged_in, stores the
\* username and moves current_screen to 'welcome_logged_in'; a submit with an
\* empty username or password leaves logged_in false and the login screen
\* displayed.
C24_LoginGate ==
    [][SubmitLogin =>
          IF main_login_user # "" /\ main_login_pass # ""
          THEN /\ logged_in'
               /\ username' = main_login_user
               /\ current_screen' = "welcome_logged_in"
          ELSE /\ ~logged_in'
               /\ displayed'.screen = "login"]_vars
\* testuser has logged in and sees the welcome dashboard.
C24_Witness ==
    /\ logged_in
    /\ username = "testuser"
    /\ main_login_pass = "password"
    /\ current_screen = "welcome_logged_in"
    /\ displayed = Shows("welcome_logged_in", "")
\* C26: the monthly table has 12 rows, and in every row the new bill is the
\* remaining grid import cost less the export revenue, the monthly savings
\* are the original bill less the new bill, the loan payment is the negative
\* of net cost * loan rate / 12 (0 when the net cost is not positive), and
\* the net cash flow is the monthly savings less net cost * loan rate / 12.
C26_MonthlyCashFlow ==
    fin_pc = "done" =>
        /\ Len(monthly_cash_flow_df) = 12
        /\ \A m \in 1 .. Len(monthly_cash_flow_df) :
              LET row == monthly_cash_flow_df[m]
                  interest == RoundDiv(net_cost * LOAN_RATE, 1200)
              IN  /\ row.New_Bill =
                         row.Remaining_Grid_Import_Cost - row.Net_Export_Revenue
                  /\ row.Monthly_Savings = row.Original_Bill_Cost - row.New_Bill
                  /\ row.Loan_Payment = (IF net_cost <= 0 THEN 0 ELSE 0 - interest)
                  /\ row.Net_Cash_Flow = row.Monthly_Savings - interest
\* A financed system whose table has a month with an import cost, an export
\* revenue and a bill.
C26_Witness ==
    /\ fin_pc = "done"
    /\ net_cost > 0
    /\ \E m \in 1 .. Len(monthly_cash_flow_df) :
          /\ monthly_cash_flow_df[m].Remaining_Grid_Import_Cost > 0
          /\ monthly_cash_flow_df[m].Net_Export_Revenue > 0
          /\ monthly_cash_flow_df[m].Original_Bill_Cost > 0
          /\ monthly_cash_flow_df[m].Import_kWh > 400
\* monthly_df["Monthly Savings ($)"].sum() over the first n rows
RECURSIVE SumMonthlySavings(_, _)
SumMonthlySavings(df, n) ==
    IF n = 0 THEN 0 ELSE df[n].Monthly_Savings + SumMonthlySavings(df, n - 1)
\* C30: when the financials are computed from the dispatch result of a run
\* and the load and rate series of that run, the twelve monthly savings sum
\* to total_annual_savings.
C30_MonthlyMatchesAnnual ==
    (orch_pc \in {"in_financials", "returned"} /\ fin_pc = "done") =>
        SumMonthlySavings(monthly_cash_flow_df, Len(monthly_cash_flow_df))
            = total_annual_savings
\* The financials of a run that served load from the array, imported and
\* exported.
C30_Witness ==
    /\ orch_pc = "returned"
    /\ fin_pc = "done"
    /\ total_annual_savings > 0
    /\ \E h \in 1 .. NumHours : import_kwh[h] > 0
    /\ \E h \in 1 .. NumHours : export_kwh[h] > 0
    /\ \E h \in 1 .. NumHours : solar_to_load[h] > 0
====
